---- MODULE Spec2Model ----
(***************************************************************************)
(* The trie committer of trie/committer.go: the recursive commit walk      *)
(* (commit, commitChildren, store), the leaf worker (commitLoop), the      *)
(* committer pool (newCommitter, returnCommitterToPool), and the owner of  *)
(* a commit call that borrows a committer, optionally starts the leaf      *)
(* pipeline, calls Commit and hands the Node Set back.                     *)
(*                                                                         *)
(* A node is a record with a "type" field:                                 *)
(*   nil        [type |-> "nil"]                                           *)
(*   valueNode  [type |-> "value", val]                                    *)
(*   hashNode   [type |-> "hash", hash]                                    *)
(*   shortNode  [type |-> "short", Key, Val, flags]                        *)
(*   fullNode   [type |-> "full", Children, flags]    (17 children)        *)
(* flags is the cache pair [hash, dirty].  A digest is a non-empty tuple   *)
(* of numbers, the nil hash is the empty tuple.  Children[k] is slot k-1.  *)
(* A position is the route from the root of the tree to a node: 0 selects  *)
(* a shortNode's Val, k in 1..17 selects Children[k].  A path is the       *)
(* nibble path the committer accumulates: a byte slice [arr, len], the     *)
(* first len bytes of backing array arr (0: the nil slice).                *)
(***************************************************************************)
EXTENDS Integers, Sequences, FiniteSets, TLC

\* leafChanSize is the size of the leafCh.
leafChanSize == 200

\* Number of sub-branches of the wide tree: each holds 16 stored leaves, so
\* that one commit stores more nodes than the leaf channel holds.
WideBranches == 12

\* Number of commit calls one behaviour makes (the pool is reused from the
\* second call on).
MaxCommits == 2

-----------------------------------------------------------------------------
(* Node model *)

NilHash == <<>>

Nil == [type |-> "nil"]

valueNode(v) == [type |-> "value", val |-> v]

hashNode(h) == [type |-> "hash", hash |-> h]

shortNode(key, val, hash, dirty) ==
    [type |-> "short", Key |-> key, Val |-> val,
     flags |-> [hash |-> hash, dirty |-> dirty]]

fullNode(children, hash, dirty) ==
    [type |-> "full", Children |-> children,
     flags |-> [hash |-> hash, dirty |-> dirty]]

\* node.cache(): the cached hash and the dirty flag of a shortNode or
\* fullNode; a hashNode and a valueNode have no cache and report (nil, true).
cache(n) ==
    IF n.type \in {"short", "full"}
    THEN n.flags
    ELSE [hash |-> NilHash, dirty |-> TRUE]

\* The node a position leads to.
RECURSIVE NodeAt(_, _)
NodeAt(n, pos) ==
    IF pos = <<>> THEN n
    ELSE IF n.type = "short" THEN NodeAt(n.Val, Tail(pos))
    ELSE NodeAt(n.Children[Head(pos)], Tail(pos))

\* hexToCompact: the compact (hex-prefix) encoding of a nibble key. The
\* terminator nibble 16 becomes flag bit 5 of the first byte, an odd length
\* flag bit 4 with the first nibble in the low half, the rest is packed two
\* nibbles to a byte.
hexToCompact(hex) ==
    LET hasTerm == Len(hex) > 0 /\ hex[Len(hex)] = 16
        h1 == IF hasTerm THEN SubSeq(hex, 1, Len(hex) - 1) ELSE hex
        odd == Len(h1) % 2 = 1
        flag == (IF hasTerm THEN 32 ELSE 0) + (IF odd THEN 16 + h1[1] ELSE 0)
        h2 == IF odd THEN Tail(h1) ELSE h1
    IN  <<flag>> \o [k \in 1..(Len(h2) \div 2) |-> h2[2 * k - 1] * 16 + h2[2 * k]]

\* nodeToBytes: the encoding of a collapsed node, deterministic and
\* injective.
nodeToBytes(n) == <<"rlp", n>>

-----------------------------------------------------------------------------
(* Byte slices *)

\* The element of a set of one element: TheOne({e(x) : x \in {v}}) is e(v)
\* with v worked out once.
TheOne(S) == CHOOSE x \in S : TRUE

\* A nil []byte.
NilSlice == [arr |-> 0, len |-> 0]

\* cap(s)
cap(mem, s) == IF s.arr = 0 THEN 0 ELSE Len(mem[s.arr])

\* A conversion that yields the empty string for every slice.
bytesEmpty(mem, s) == <<>>

\* string(s): a copy of the bytes of the slice.
bytes(mem, s) == IF s.arr = 0 THEN <<>> ELSE SubSeq(mem[s.arr], 1, s.len)

\* The capacity append gives a byte slice that has to grow to need bytes:
\* the needed length if that is more than twice the old capacity, twice the
\* old capacity otherwise, rounded up to an allocation size (a multiple of
\* 8 for these small sizes).
growslice(oldcap, need) ==
    LET newcap == IF need > 2 * oldcap THEN need ELSE 2 * oldcap
    IN  8 * ((newcap + 7) \div 8)

\* An append that drops the bytes of the slice it is given.
appendFresh(mem, s, elems) ==
    [mem |-> Append(mem, [k \in 1..growslice(0, Len(elems)) |->
                            IF k <= Len(elems) THEN elems[k] ELSE 0]),
     slice |-> [arr |-> Len(mem) + 1, len |-> Len(elems)]]

\* append(s, elems...): with room in the backing array the elements are
\* written in place behind the first len bytes and the result shares the
\* array with s; without room the bytes of s and the elements go to a new
\* array. The result is the memory and the new slice.
append(mem, s, elems) ==
    LET InPlace(m, sl, es, need) ==
            [mem |-> IF es = <<>> THEN m
                     ELSE [m EXCEPT ![sl.arr] =
                              [k \in 1..Len(@) |->
                                  IF k > sl.len /\ k <= need THEN es[k - sl.len] ELSE @[k]]],
             slice |-> [sl EXCEPT !.len = need]]
        Grown(m, need, newcap, old) ==
            [mem |-> Append(m, [k \in 1..newcap |-> IF k <= need THEN old[k] ELSE 0]),
             slice |-> [arr |-> Len(m) + 1, len |-> need]]
        Go(m, sl, es, need) ==
            IF need <= cap(m, sl)
            THEN InPlace(m, sl, es, need)
            ELSE TheOne({Grown(m, need, newcap, old) :
                            newcap \in {growslice(cap(m, sl), need)},
                            old \in {(IF sl.arr = 0 THEN <<>>
                                      ELSE SubSeq(m[sl.arr], 1, sl.len)) \o es}})
    IN  TheOne({Go(m, sl, es, sl.len + Len(es)) : m \in {mem}, sl \in {s}, es \in {elems}})

-----------------------------------------------------------------------------
(* Node Set *)

EmptyNodes == [p \in {} |-> Nil]

\* trienode.New(hash, blob)
NewNode(hash, blob) == [deleted |-> FALSE, hash |-> hash, blob |-> blob]

\* trienode.NewDeleted()
NewDeleted == [deleted |-> TRUE, hash |-> NilHash, blob |-> <<>>]

\* NodeSet.AddNode: the entry of the path is set, replacing an earlier one.
AddNode(set, path, n) ==
    [p \in DOMAIN set \cup {path} |-> IF p = path THEN n ELSE set[p]]

\* NodeSet.AddLeaf: the leaf mapping, keyed by the parent digest.
AddLeaf(set, parent, blob) ==
    [h \in DOMAIN set \cup {parent} |-> IF h = parent THEN blob ELSE set[h]]

-----------------------------------------------------------------------------
(* Inputs: dirty-node trees, access records, leaf callbacks *)

\* A hash reference to a node stored by an earlier commit.
HashRef == hashNode(<<0, 7>>)

\* The digest the hasher cached for the node at a position. Digests of
\* distinct nodes are distinct (the hash function is collision resistant).
Keccak(pos) == <<1>> \o pos

Flags == {<<TRUE, TRUE>>, <<TRUE, FALSE>>, <<FALSE, TRUE>>, <<FALSE, FALSE>>}

\* A node of a tree under construction: f[1] says whether the hasher cached
\* a hash for it, f[2] is the dirty flag. Cached gives these hashes their
\* value and keeps any other digest a node was built with.
MkShort(key, val, f) ==
    shortNode(key, val, IF f[1] THEN <<1>> ELSE NilHash, f[2])

MkFull(c0, c5, c16, f) ==
    fullNode([k \in 1..17 |-> IF k = 1 THEN c0 ELSE IF k = 6 THEN c5
                              ELSE IF k = 17 THEN c16 ELSE Nil],
             IF f[1] THEN <<1>> ELSE NilHash, f[2])

RECURSIVE Cached(_, _)
Cached(n, pos) ==
    IF n.type = "short"
    THEN shortNode(n.Key, Cached(n.Val, pos \o <<0>>),
                   IF n.flags.hash = <<1>> THEN Keccak(pos) ELSE n.flags.hash,
                   n.flags.dirty)
    ELSE IF n.type = "full"
    THEN fullNode([k \in 1..17 |-> Cached(n.Children[k], pos \o <<k>>)],
                  IF n.flags.hash = <<1>> THEN Keccak(pos) ELSE n.flags.hash,
                  n.flags.dirty)
    ELSE n

\* Leaf-valued shortNodes at the root.
RootLeaves ==
    {MkShort(k, v, f) : k \in {<<>>, <<3, 16>>},
                        v \in {valueNode("X"), valueNode("Y"), HashRef},
                        f \in Flags}

\* Children of a fullNode in slot 0, slot 5 and the 17th slot. A valueNode
\* in slot 0 or 5 is the invalid tree the commit walk panics on.
Slot0 ==
    {Nil, HashRef, valueNode("Y"), MkShort(<<2>>, HashRef, <<TRUE, TRUE>>)}
    \cup {MkShort(<<1, 16>>, valueNode("X"), f) : f \in Flags}

Slot5 ==
    {Nil, valueNode("X"),
     MkShort(<<2, 16>>, valueNode("Y"), <<TRUE, TRUE>>),
     MkShort(<<2, 16>>, valueNode("Y"), <<FALSE, TRUE>>)}

Slot16 == {Nil, valueNode("X"), HashRef}

Fulls == {MkFull(c0, c5, c16, f) : c0 \in Slot0, c5 \in Slot5, c16 \in Slot16, f \in Flags}

\* fullNodes below a shortNode.
InnerFulls ==
    {MkFull(MkShort(<<1, 16>>, valueNode("X"), <<h, TRUE>>), Nil, c16, f) :
        h \in BOOLEAN, c16 \in {Nil, valueNode("Y")}, f \in Flags}

\* Extension nodes: a shortNode over a fullNode, with and without a key.
Extensions ==
    {MkShort(k, fn, f) : k \in {<<>>, <<3>>}, fn \in InnerFulls, f \in Flags}

\* Trees of depth three: a fullNode over an extension and over a fullNode.
\* The long key takes the path past the capacity of its backing array.
DeepFulls ==
    {MkFull(MkShort(k, fn, <<h, TRUE>>), c5, Nil, <<TRUE, TRUE>>) :
        k \in {<<>>, <<3>>, <<1, 2, 3, 4, 5, 6, 7, 8>>},
        fn \in {n \in InnerFulls : n.Children[17] = Nil /\ n.flags.dirty},
        h \in BOOLEAN,
        c5 \in {Nil, MkFull(MkShort(<<1, 16>>, valueNode("X"), <<TRUE, TRUE>>), Nil,
                            valueNode("Y"), <<TRUE, TRUE>>)}}

\* The wide tree: WideBranches fullNodes of 16 stored leaves each.
WideTree ==
    fullNode([k \in 1..17 |->
                IF k <= WideBranches /\ k <= 16
                THEN fullNode([j \in 1..17 |->
                                 IF j <= 16
                                 THEN MkShort(<<1, 16>>, valueNode("X"), <<TRUE, TRUE>>)
                                 ELSE Nil], <<1>>, TRUE)
                ELSE Nil], <<1>>, TRUE)

\* Two leaves with the same key and value in different slots: equal nodes
\* have equal digests.
Twins ==
    LET leaf == shortNode(<<1, 16>>, valueNode("X"), <<9>>, TRUE)
    IN  {MkFull(leaf, leaf, Nil, <<TRUE, TRUE>>)}

\* A fullNode over a fullNode with two committed children, stored or
\* embedded.
Nested ==
    {MkFull(MkFull(MkShort(<<1, 16>>, valueNode("X"), <<h0, TRUE>>),
                   MkShort(<<2, 16>>, valueNode("Y"), <<h5, TRUE>>), Nil, <<h, TRUE>>),
            MkShort(<<2, 16>>, valueNode("Y"), <<TRUE, TRUE>>), Nil, <<TRUE, TRUE>>) :
        h0 \in BOOLEAN, h5 \in BOOLEAN, h \in BOOLEAN}

SmallTrees ==
    {Nil, valueNode("X"), HashRef} \cup RootLeaves \cup Fulls \cup Extensions \cup DeepFulls
    \cup Twins \cup Nested

\* Access records: the paths that held a stored node before.
AccessLists == {{}, {<<>>, <<0>>, <<3>>}}

\* Leaf callbacks. "cbOk" never fails, "cbFail" fails on every leaf with an
\* error naming the leaf, "cbFailX" fails on leaf "X" only.
Callbacks == {"cbOk", "cbFail", "cbFailX"}

NoErr == <<>>

\* The error the callback returns for a leaf.
OnLeaf(cb, leaf) ==
    IF cb = "cbFail" \/ (cb = "cbFailX" /\ leaf = "X") THEN <<"err", leaf>> ELSE NoErr

\* What a caller passes to a commit: the tree, the owner of the fresh Node
\* Set, the access record and the leaf callback ("nil": no leaf pipeline).
Input(root, owner, acc, cb) ==
    [root |-> Cached(root, <<>>), owner |-> owner, accessList |-> acc, onleaf |-> cb]

Inputs ==
    {Input(t, "acct", a, cb) : t \in SmallTrees, a \in AccessLists, cb \in {"nil", "cbOk"}}
    \cup {Input(t, "stor", {}, cb) : t \in RootLeaves \cup DeepFulls, cb \in {"cbFail", "cbFailX"}}

\* The commit of the wide tree, with the leaf pipeline.
WideInputs == {Input(WideTree, "acct", {}, "cbOk")}

\* The inputs of the calls that follow the first one.
ReuseInputs ==
    {Input(t, o, {<<>>}, cb) :
        t \in {HashRef, MkShort(<<3, 16>>, valueNode("X"), <<TRUE, TRUE>>)},
        o \in {"acct", "stor"}, cb \in {"nil", "cbOk"}}

-----------------------------------------------------------------------------
(* State *)

VARIABLES
    pool,       \* committerPool: the committers put back, by their fields
    c,          \* the committer the caller holds
    caller,     \* the caller's arguments: root, owner, accessList, onleaf
    ncommit,    \* commit calls made so far
    lastPut,    \* the fields of the committer last handed to returnCommitterToPool
    phase,      \* idle, borrowed, piped, walking, committed, closed, returned, panicked
    panic,      \* what aborted the operation
    stack,      \* the frames of commit(path, n), innermost last
    ret,        \* the value the outermost commit returned
    result,     \* the hashNode Commit returned
    lastRet,    \* the last return of a commit(path, n) call
    nodes,      \* NodeSet.Nodes: path -> entry
    leaves,     \* NodeSet.Leaves: parent digest -> leaf value
    storeLog,   \* the calls of store, in order: position, path, hash and node
    arrays,     \* the backing arrays of the path slices, in order of allocation
    leafCh,     \* the messages buffered in c.leafCh
    closed,     \* whether c.leafCh was closed
    worker,     \* the commitLoop goroutine: off, running, adding (in AddLeaf), done
    item,       \* the message commitLoop is working on
    calls,      \* the invocations of the leaf callback, in order
    wide,       \* whether the callers commit the wide tree
    prev,       \* when a tree is committed again: the call before and what it yielded
    decoded,    \* the decoded node handed to the child resolver
    gathered    \* what forGatherChildren did with it: the callback calls, the panic

vars == <<pool, c, caller, ncommit, lastPut, phase, panic, stack, ret, result,
          lastRet, nodes, leaves, storeLog, arrays, leafCh, closed, worker, item, calls,
          wide,
          prev, decoded, gathered>>

resolverVars == <<decoded, gathered>>

poolVars == <<pool, c, caller, ncommit, lastPut, wide, prev>>
walkVars == <<stack, ret, result, lastRet, nodes, storeLog, arrays>>
pipeVars == <<leaves, leafCh, closed, worker, item, calls>>

NilNodeSet == [valid |-> FALSE, owner |-> ""]
NilTracer == [valid |-> FALSE, accessList |-> {}]

\* committerPool.New: &committer{}
NewC == [nodes |-> NilNodeSet, tracer |-> NilTracer, onleaf |-> "nil", leafCh |-> "nil"]

NoCall == [root |-> Nil, owner |-> "", accessList |-> {}, onleaf |-> "nil"]
NoRet == [valid |-> FALSE, pos |-> <<>>, val |-> Nil]
NoPrev == [valid |-> FALSE]
NoItem == [node |-> Nil, parent |-> NilHash]
EmptyLeaves == [h \in {} |-> ""]
NoKids == [k \in 1..17 |-> Nil]

Frame(pos, path) ==
    [pos |-> pos, path |-> path, pc |-> "enter", i |-> 1, kids |-> NoKids,
     collapsed |-> Nil]

Start ==
    /\ pool = {}
    /\ c = NewC
    /\ caller = NoCall
    /\ ncommit = 0
    /\ lastPut = NewC
    /\ phase = "idle"
    /\ panic = "none"
    /\ stack = <<>>
    /\ ret = Nil
    /\ result = Nil
    /\ lastRet = NoRet
    /\ nodes = EmptyNodes
    /\ leaves = EmptyLeaves
    /\ storeLog = <<>>
    /\ arrays = <<>>
    /\ leafCh = <<>>
    /\ closed = FALSE
    /\ worker = "off"
    /\ item = NoItem
    /\ calls = <<>>
    /\ prev = NoPrev

NotRun == [run |-> FALSE, calls |-> <<>>, panic |-> FALSE]

\* No node is handed to the child resolver.
NoResolver == decoded = Nil /\ gathered = NotRun

Init == Start /\ wide = FALSE /\ NoResolver

InitWide == Start /\ wide = TRUE /\ NoResolver

-----------------------------------------------------------------------------
(* The committer pool and the owner of a commit call *)

\* newCommitter: the committer taken from the pool with its Node Set and
\* tracer set.
newCommitter(h, nodeset, tracer) ==
    [h EXCEPT !.nodes = nodeset, !.tracer = tracer]

\* A release that clears the Node Set and Access Record but leaves the
\* callback and the channel of the previous borrower in place.
returnCommitterToPoolM(h) == [h EXCEPT !.nodes = NilNodeSet, !.tracer = NilTracer]

\* returnCommitterToPool: every field is reset before the Put.
returnCommitterToPool(h) ==
    [h EXCEPT !.nodes = NilNodeSet, !.tracer = NilTracer, !.onleaf = "nil",
              !.leafCh = "nil"]

\* The inputs of the first call.
FirstInputs == IF wide THEN WideInputs ELSE Inputs

\* The inputs of a later call: a small commit for another owner, or the tree
\* and access record of the call before committed again into a fresh Node
\* Set, with the leaf pipeline if that call had none and without it if it
\* had one.
Replay ==
    IF wide THEN {}
    ELSE {[caller EXCEPT !.onleaf = IF caller.onleaf = "nil" THEN "cbOk" ELSE "nil"]}

LaterInputs == ReuseInputs \cup Replay

\* A caller borrows a committer for a fresh Node Set and its access record.
\* committerPool.Get returns a committer put back earlier or a new one.
NewCommitter ==
    /\ phase \in {"idle", "returned"}
    /\ ncommit < MaxCommits
    /\ \E in \in (IF ncommit = 0 THEN FirstInputs ELSE LaterInputs), h \in pool \cup {NewC} :
          /\ caller' = in
          /\ pool' \in {pool \ {h}} \cup (IF h = NewC THEN {pool} ELSE {})
          /\ c' = newCommitter(h, [valid |-> TRUE, owner |-> in.owner],
                               [valid |-> TRUE, accessList |-> in.accessList])
    /\ ncommit' = ncommit + 1
    /\ phase' = "borrowed"
    /\ panic' = "none"
    /\ stack' = <<>> /\ ret' = Nil /\ result' = Nil /\ lastRet' = NoRet
    /\ nodes' = EmptyNodes /\ leaves' = EmptyLeaves /\ storeLog' = <<>>
    /\ arrays' = <<>>
    /\ calls' = <<>>
    /\ prev' = IF caller' \in Replay
               THEN [valid |-> TRUE, caller |-> caller, result |-> result,
                     nodes |-> nodes, storeLog |-> storeLog]
               ELSE NoPrev
    /\ UNCHANGED <<lastPut, leafCh, closed, worker, item, wide>>
    /\ UNCHANGED resolverVars

\* The caller has a leaf callback: it sets the callback, makes the leaf
\* channel and starts commitLoop.
EnableLeafPipeline ==
    /\ phase = "borrowed"
    /\ caller.onleaf # "nil"
    /\ c' = [c EXCEPT !.onleaf = caller.onleaf, !.leafCh = "ch"]
    /\ leafCh' = <<>>
    /\ closed' = FALSE
    /\ worker' = "running"
    /\ phase' = "piped"
    /\ UNCHANGED <<pool, caller, ncommit, lastPut, wide, prev, panic, leaves, item, calls>>
    /\ UNCHANGED walkVars
    /\ UNCHANGED resolverVars

\* Commit: the call of commit(nil, n).
Commit ==
    /\ IF caller.onleaf = "nil" THEN phase = "borrowed" ELSE phase = "piped"
    /\ stack' = <<Frame(<<>>, NilSlice)>>
    /\ phase' = "walking"
    /\ UNCHANGED <<ret, result, lastRet, nodes, storeLog, arrays, panic>>
    /\ UNCHANGED poolVars
    /\ UNCHANGED pipeVars
    /\ UNCHANGED resolverVars

-----------------------------------------------------------------------------
(* The commit walk *)

Top == stack[Len(stack)]

TopNode == NodeAt(caller.root, Top.pos)

WithTop(stk, f) == [stk EXCEPT ![Len(stk)] = f]

\* A walk that never takes the clean shortcut.
IsCleanM(n) == FALSE

\* commit: "if this path is clean, use available cached data".
IsClean(n) == cache(n).hash # NilHash /\ ~cache(n).dirty

\* A loop over the children that takes the last child first.
NextChildLast(n, k) ==
    LET S == {j \in k..16 : n.Children[j].type \notin {"nil", "hash"}}
    IN  IF S = {} THEN 17 ELSE CHOOSE j \in S : \A j2 \in S : j >= j2

\* commitChildren: the first slot from k on (k in 1..16) whose child is
\* committed recursively, 17 when there is none.
NextChild(n, k) ==
    LET S == {j \in k..16 : n.Children[j].type \notin {"nil", "hash"}}
    IN  IF S = {} THEN 17 ELSE CHOOSE j \in S : \A j2 \in S : j <= j2

\* A copy of the children that leaves the 17th child out.
CarryNothing(kids, n) == kids

\* commitChildren: "For the 17th child, it's possible the type is
\* valuenode": a 17th child that is not nil is put in the copy as it is.
CarryOver(kids, n) ==
    IF n.Children[17].type # "nil" THEN [kids EXCEPT ![17] = n.Children[17]] ELSE kids

\* commitChildren from slot f.i of the frame on top of stk: absent children
\* are skipped and hashed children saved as they are, up to the first child
\* committed recursively (a new frame at path + index). After slot 15 the
\* 17th child is carried over and the collapsed copy goes to the store step.
CommitChildren(stk) ==
    LET Loop(f, n, j) ==
            [k \in 1..17 |->
                IF k >= f.i /\ k < j /\ k <= 16 /\ n.Children[k].type = "hash"
                THEN n.Children[k] ELSE f.kids[k]]
        Go(s, f, n, j, kids, kids17) ==
            IF j <= 16
            THEN Append(WithTop(s, [f EXCEPT !.pc = "children", !.i = j, !.kids = kids]),
                        Frame(f.pos \o <<j>>, append(arrays, f.path, <<j - 1>>).slice))
            ELSE WithTop(s, [f EXCEPT !.pc = "store", !.i = 17, !.kids = kids17,
                                      !.collapsed = [n EXCEPT !.Children = kids17]])
        WithKids(s, f, n, j) ==
            TheOne({TheOne({Go(s, f, n, j, kids, kids17) : kids17 \in {CarryOver(kids, n)}}) :
                       kids \in {Loop(f, n, j)}})
        WithNode(s, f) ==
            TheOne({TheOne({WithKids(s, f, n, j) : j \in {NextChild(n, f.i)}}) :
                       n \in {NodeAt(caller.root, f.pos)}})
    IN  TheOne({TheOne({WithNode(s, f) : f \in {s[Len(s)]}}) : s \in {stk}})

\* The memory after CommitChildren(stk): append(path, byte(i)) for the child
\* committed recursively.
CommitChildrenMem(stk) ==
    LET Go(f, j) == IF j <= 16 THEN append(arrays, f.path, <<j - 1>>).mem ELSE arrays
        From(f) == TheOne({Go(f, j) : j \in {NextChild(NodeAt(caller.root, f.pos), f.i)}})
    IN  TheOne({From(f) : f \in {stk[Len(stk)]}})

\* commit returns v: the frame is popped and the caller goes on. A shortNode
\* puts v in the Val of its copy and compacts the key; a fullNode puts v in
\* the slot and goes on with the next children.
Return(stk, v) ==
    LET Go(val, rest, p, pn) ==
            IF p.pc = "child"
            THEN WithTop(rest, [p EXCEPT !.pc = "store",
                                   !.collapsed = [pn EXCEPT !.Val = val,
                                                     !.Key = hexToCompact(pn.Key)]])
            ELSE CommitChildren(WithTop(rest, [p EXCEPT !.kids[p.i] = val,
                                                        !.i = p.i + 1]))
        Caller(val, rest) ==
            TheOne({TheOne({Go(val, rest, p, pn) : pn \in {NodeAt(caller.root, p.pos)}}) :
                       p \in {rest[Len(rest)]}})
        Pop(val, rest) == IF rest = <<>> THEN rest ELSE Caller(val, rest)
    IN  TheOne({TheOne({Pop(val, rest) : rest \in {SubSeq(stk, 1, Len(stk) - 1)}}) :
                   val \in {v}})

\* The memory after Return(stk, v).
ReturnMem(stk, v) ==
    LET Go(rest, p) ==
            IF p.pc = "child" THEN arrays
            ELSE CommitChildrenMem(WithTop(rest, [p EXCEPT !.kids[p.i] = v, !.i = p.i + 1]))
        Pop(rest) ==
            IF rest = <<>> THEN arrays ELSE TheOne({Go(rest, p) : p \in {rest[Len(rest)]}})
    IN  TheOne({Pop(rest) : rest \in {SubSeq(stk, 1, Len(stk) - 1)}})

Returns(v) ==
    /\ stack' = Return(stack, v)
    /\ arrays' = ReturnMem(stack, v)
    /\ ret' = IF Len(stack) = 1 THEN v ELSE ret
    /\ lastRet' = [valid |-> TRUE, pos |-> Top.pos, val |-> v]

\* A dispatch that hands every other variant back like a hash reference.
DispatchM(n) == IF n.type \in {"short", "full"} THEN n.type ELSE "hash"

\* commit: the type switch. A shortNode and a fullNode are committed, a
\* hashNode is returned, any other node ("nil, valuenode shouldn't be
\* committed") panics.
Dispatch(n) ==
    IF n.type \in {"short", "full", "hash"} THEN n.type ELSE "panic"

\* commit(path, n) up to its first call. n.cache() on a nil node is a nil
\* dereference. A clean node returns its cached hash. Then the type switch:
\* the shortNode's copy (a fullNode child is committed at path + key), the
\* fullNode's children, the hashNode, the panic on any other node.
CommitEnter ==
    /\ phase = "walking"
    /\ stack # <<>>
    /\ Top.pc = "enter"
    /\ LET n == TopNode
       IN  IF n.type = "nil" \/ (~IsClean(n) /\ Dispatch(n) = "panic")
           THEN /\ phase' = "panicked"
                /\ panic' = IF n.type = "nil" THEN "nil dereference" ELSE "invalid node"
                /\ UNCHANGED <<stack, ret, lastRet, arrays>>
           ELSE /\ UNCHANGED <<phase, panic>>
                /\ IF IsClean(n)
                   THEN Returns(hashNode(cache(n).hash))
                   ELSE IF Dispatch(n) = "hash"
                   THEN Returns(n)
                   ELSE /\ UNCHANGED <<ret, lastRet>>
                        /\ IF Dispatch(n) = "full"
                           THEN /\ stack' = CommitChildren(stack)
                                /\ arrays' = CommitChildrenMem(stack)
                           ELSE IF n.Val.type = "full"
                           THEN LET a == append(arrays, Top.path, n.Key)
                                IN  /\ stack' = Append(WithTop(stack, [Top EXCEPT !.pc = "child"]),
                                                       Frame(Top.pos \o <<0>>, a.slice))
                                    /\ arrays' = a.mem
                           ELSE /\ stack' = WithTop(stack,
                                       [Top EXCEPT !.pc = "store",
                                           !.collapsed = [n EXCEPT !.Key = hexToCompact(n.Key)]])
                                /\ UNCHANGED arrays
    /\ UNCHANGED <<result, nodes, storeLog>>
    /\ UNCHANGED poolVars
    /\ UNCHANGED pipeVars
    /\ UNCHANGED resolverVars

\* An Access Record that answers yes for every path.
WasStoredM(tracer, path) == TRUE

\* A store step that marks no deletion while a leaf channel is set.
WasStoredUnpiped(tracer, path) == path \in tracer.accessList /\ c.leafCh = "nil"

\* store: whether the tracer knows the path of a node now embedded in its
\* parent.
WasStored(tracer, path) == path \in tracer.accessList

\* A synchronous store that records no leaf.
SyncLeafM(set, n, nhash) == set

\* store without a leaf channel: the leaf of a shortNode whose value is a
\* valueNode is added to the Node Set.
SyncLeaf(set, n, nhash) ==
    IF n.type = "short" /\ n.Val.type = "value"
    THEN AddLeaf(set, nhash, n.Val.val)
    ELSE set

\* A store step that always hands the node itself back.
StoreResultM(n, hash) == n

\* store: what it returns, the node itself when it has no hash and the hash
\* otherwise. commit returns the hash, or else its collapsed copy.
StoreResult(n, hash) == IF hash = NilHash THEN n ELSE hashNode(hash)

\* store(path, n) from the call of AddNode on: the entry is added to the
\* Node Set. A node without a hash is marked deleted and returned as it is.
\* A node with a hash is added with its encoding; with a leaf channel the
\* walk goes on to the hand-off, without one the leaf is collected at once
\* and the hash returned.
AddToNodeSet ==
    LET n == Top.collapsed
        hash == cache(n).hash
        path == bytes(arrays, Top.path)
    IN  /\ storeLog' = Append(storeLog, [pos |-> Top.pos, path |-> path, hash |-> hash,
                                         node |-> n])
        /\ IF hash = NilHash
           THEN /\ nodes' = AddNode(nodes, path, NewDeleted)
                /\ Returns(StoreResult(n, hash))
                /\ UNCHANGED leaves
           ELSE /\ nodes' = AddNode(nodes, path, NewNode(hash, nodeToBytes(n)))
                /\ IF c.leafCh # "nil"
                   THEN /\ stack' = WithTop(stack, [Top EXCEPT !.pc = "send"])
                        /\ UNCHANGED <<ret, lastRet, leaves, arrays>>
                   ELSE /\ leaves' = SyncLeaf(leaves, n, hash)
                        /\ Returns(StoreResult(n, hash))

\* store(path, n) up to the call of AddNode. A node without a hash is
\* embedded in its parent: if the tracer does not know its path it is
\* returned as it is, with nothing added. Else the walk enters AddNode. (In
\* the commit of the wide tree the insertion is taken as one step with the
\* call: it touches only the node entries, which nothing else reads.)
Store ==
    /\ phase = "walking"
    /\ stack # <<>>
    /\ Top.pc = "store"
    /\ LET n == Top.collapsed
           hash == cache(n).hash
           path == bytes(arrays, Top.path)
       IN  IF hash = NilHash /\ ~WasStored(c.tracer, path)
           THEN /\ storeLog' = Append(storeLog, [pos |-> Top.pos, path |-> path,
                                                 hash |-> hash, node |-> n])
                /\ Returns(StoreResult(n, hash))
                /\ UNCHANGED <<nodes, leaves>>
           ELSE IF wide
           THEN AddToNodeSet
           ELSE /\ stack' = WithTop(stack, [Top EXCEPT !.pc = "add"])
                /\ UNCHANGED <<storeLog, nodes, leaves, ret, lastRet, arrays>>
    /\ UNCHANGED <<result, phase, panic, leafCh, closed, worker, item, calls>>
    /\ UNCHANGED poolVars
    /\ UNCHANGED resolverVars

\* The walk inside AddNode: the insertion is done and store goes on.
StoreAdd ==
    /\ phase = "walking"
    /\ stack # <<>>
    /\ Top.pc = "add"
    /\ AddToNodeSet
    /\ UNCHANGED <<result, phase, panic, leafCh, closed, worker, item, calls>>
    /\ UNCHANGED poolVars
    /\ UNCHANGED resolverVars

\* A hand-off on a nil channel, which never completes.
CanSendNil(ch) == FALSE

\* A hand-off that never blocks.
CanSendM(ch) == TRUE

\* The send on c.leafCh blocks while the channel holds leafChanSize messages.
CanSend(ch) == Len(ch) < leafChanSize

\* A hand-off that queues at the front.
SendM(ch, n, nhash) == <<[node |-> n, parent |-> nhash]>> \o ch

\* c.leafCh <- &leafInfo{node: n, parent: nhash}
Send(ch, n, nhash) == Append(ch, [node |-> n, parent |-> nhash])

\* store with a leaf channel: the node is handed to the leaf worker and the
\* hash returned.
StoreSend ==
    /\ phase = "walking"
    /\ stack # <<>>
    /\ Top.pc = "send"
    /\ CanSend(leafCh)
    /\ leafCh' = Send(leafCh, Top.collapsed, cache(Top.collapsed).hash)
    /\ Returns(StoreResult(Top.collapsed, cache(Top.collapsed).hash))
    /\ UNCHANGED <<result, nodes, storeLog, phase, panic, leaves, closed, worker, item, calls>>
    /\ UNCHANGED poolVars
    /\ UNCHANGED resolverVars

\* Commit: commit(nil, n).(hashNode). The type assertion panics when commit
\* returned an embedded node.
CommitReturn ==
    /\ phase = "walking"
    /\ stack = <<>>
    /\ IF ret.type = "hash"
       THEN /\ result' = ret
            /\ phase' = "committed"
            /\ UNCHANGED panic
       ELSE /\ phase' = "panicked"
            /\ panic' = "type assertion"
            /\ UNCHANGED result
    /\ UNCHANGED <<stack, ret, lastRet, nodes, storeLog, arrays>>
    /\ UNCHANGED poolVars
    /\ UNCHANGED pipeVars
    /\ UNCHANGED resolverVars

-----------------------------------------------------------------------------
(* The leaf worker *)

\* for item := range c.leafCh: the next message, in the order of the sends.
Recv(ch) == Head(ch)

\* commitLoop: the leaf of a message's node. A shortNode whose value is a
\* valueNode gives that value; a fullNode whose 17th child is present gives
\* that child, asserted to be a valueNode; any other node gives nothing.
LoopLeaf(n) ==
    IF n.type = "short"
    THEN (IF n.Val.type = "value" THEN n.Val ELSE Nil)
    ELSE IF n.type = "full" THEN n.Children[17]
    ELSE Nil

\* commitLoop inside AddLeaf for the message it holds: the leaf is added to
\* the Node Set and the callback invoked; its result is dropped.
AddLeafAndCall(msg) ==
    LET leaf == LoopLeaf(msg.node)
    IN  /\ leaves' = AddLeaf(leaves, msg.parent, leaf.val)
        /\ calls' = Append(calls, [leaf |-> leaf.val, parent |-> msg.parent,
                                   err |-> OnLeaf(c.onleaf, leaf.val)])

\* commitLoop, one message received: with a callback set and a leaf in the
\* node, the worker enters AddLeaf; the type assertion on the 17th child of
\* a fullNode panics when it is no valueNode. (In the commit of the wide
\* tree the insertion is taken as one step with the receive: it touches
\* only the leaf mapping, which nothing else reads.)
LoopItem ==
    /\ worker = "running"
    /\ phase # "panicked"
    /\ leafCh # <<>>
    /\ LET msg == Recv(leafCh)
           leaf == IF c.onleaf # "nil" THEN LoopLeaf(msg.node) ELSE Nil
       IN  /\ leafCh' = Tail(leafCh)
           /\ IF leaf.type = "nil"
              THEN UNCHANGED <<leaves, calls, phase, panic, worker, item>>
              ELSE IF leaf.type = "value"
              THEN /\ IF wide
                      THEN AddLeafAndCall(msg) /\ UNCHANGED <<worker, item>>
                      ELSE /\ worker' = "adding"
                           /\ item' = msg
                           /\ UNCHANGED <<leaves, calls>>
                   /\ UNCHANGED <<phase, panic>>
              ELSE /\ phase' = "panicked"
                   /\ panic' = "leaf assertion"
                   /\ UNCHANGED <<leaves, calls, worker, item>>
    /\ UNCHANGED closed
    /\ UNCHANGED poolVars
    /\ UNCHANGED walkVars
    /\ UNCHANGED resolverVars

\* The worker inside AddLeaf: the insertion and the callback are done, and
\* the loop goes on.
LoopAddLeaf ==
    /\ worker = "adding"
    /\ phase # "panicked"
    /\ AddLeafAndCall(item)
    /\ worker' = "running"
    /\ item' = NoItem
    /\ UNCHANGED <<leafCh, closed, phase, panic>>
    /\ UNCHANGED poolVars
    /\ UNCHANGED walkVars
    /\ UNCHANGED resolverVars

\* A worker that stops at the close without draining.
LoopDoneM(ch, isClosed) == isClosed

\* The range loop ends when the channel is closed and drained.
LoopDone(ch, isClosed) == isClosed /\ ch = <<>>

LoopExit ==
    /\ worker = "running"
    /\ phase # "panicked"
    /\ LoopDone(leafCh, closed)
    /\ worker' = "done"
    /\ UNCHANGED <<leaves, leafCh, closed, item, calls, phase, panic>>
    /\ UNCHANGED poolVars
    /\ UNCHANGED walkVars
    /\ UNCHANGED resolverVars

-----------------------------------------------------------------------------
(* After Commit *)

\* The owner closes the leaf channel once Commit has returned.
CloseLeafCh ==
    /\ phase = "committed"
    /\ c.leafCh # "nil"
    /\ closed' = TRUE
    /\ phase' = "closed"
    /\ UNCHANGED <<leaves, leafCh, worker, item, calls, panic>>
    /\ UNCHANGED poolVars
    /\ UNCHANGED walkVars
    /\ UNCHANGED resolverVars

\* The owner waits for the worker, if any, puts the committer back and hands
\* the Node Set to its caller.
ReturnCommitterToPool ==
    /\ IF c.leafCh = "nil" THEN phase = "committed"
       ELSE phase = "closed" /\ worker = "done"
    /\ lastPut' = c
    /\ c' = returnCommitterToPool(c)
    /\ pool' = pool \cup {returnCommitterToPool(c)}
    /\ phase' = "returned"
    /\ UNCHANGED <<caller, ncommit, wide, prev, panic>>
    /\ UNCHANGED walkVars
    /\ UNCHANGED pipeVars
    /\ UNCHANGED resolverVars

-----------------------------------------------------------------------------
(* The child resolver *)

\* A node of a type the resolver does not know.
Unknown == [type |-> "unknown"]

\* Decoded nodes: hash references, values, embedded shortNodes and fullNodes
\* nested in one another.
HashA == hashNode(<<0, 1>>)
HashB == hashNode(<<0, 2>>)
HashC == hashNode(<<0, 3>>)

DecodedLeaves == {Nil, valueNode("X"), HashA, HashB, Unknown}

DecodedShorts == {shortNode(<<2>>, v, NilHash, FALSE) : v \in DecodedLeaves}

DecodedFulls ==
    {fullNode([k \in 1..17 |-> IF k = 1 THEN c0 ELSE IF k = 6 THEN c5
                               ELSE IF k = 16 THEN c15 ELSE IF k = 17 THEN c16 ELSE Nil],
              NilHash, FALSE) :
        c0 \in DecodedLeaves \cup DecodedShorts,
        c5 \in {Nil, HashA, HashC, Unknown, shortNode(<<4>>, HashC, NilHash, FALSE)},
        c15 \in {Nil, HashB},
        c16 \in {Nil, valueNode("Y"), HashC, Unknown}}

DecodedNodes ==
    DecodedLeaves \cup DecodedShorts \cup DecodedFulls
    \cup {shortNode(<<3>>, fn, NilHash, FALSE) :
            fn \in {n \in DecodedFulls : n.Children[1].type = "short" /\ n.Children[16] = Nil}}

\* A callback invoked twice for a hash reference.
onChildTwice(n) == <<n.hash, n.hash>>

\* onChild(common.BytesToHash(n)): the calls of the callback for a hashNode.
onChild(n) == <<n.hash>>

\* forGatherChildren(n, onChild): the calls of the callback, in order, and
\* whether the traversal panicked on an unknown node type. A shortNode
\* passes on to its value, a fullNode to its children 0..15 in order, a
\* hashNode invokes the callback, a valueNode and nil do nothing.
RECURSIVE forGatherChildren(_)
RECURSIVE gatherSlots(_, _)
forGatherChildren(n) ==
    IF n.type = "short" THEN forGatherChildren(n.Val)
    ELSE IF n.type = "full" THEN gatherSlots(n, 1)
    ELSE IF n.type = "hash" THEN [calls |-> onChild(n), panic |-> FALSE]
    ELSE IF n.type \in {"value", "nil"} THEN [calls |-> <<>>, panic |-> FALSE]
    ELSE [calls |-> <<>>, panic |-> TRUE]

\* for i := 0; i < 16; i++ { forGatherChildren(n.Children[i], onChild) },
\* from Children[i] on; a panic ends the loop.
gatherSlots(n, i) ==
    IF i > 16 THEN [calls |-> <<>>, panic |-> FALSE]
    ELSE LET r == forGatherChildren(n.Children[i])
         IN  IF r.panic THEN r
             ELSE LET rest == gatherSlots(n, i + 1)
                  IN  [calls |-> r.calls \o rest.calls, panic |-> rest.panic]

InitResolver ==
    /\ Start
    /\ wide = FALSE
    /\ decoded \in DecodedNodes
    /\ gathered = NotRun

\* mptResolver.ForEach on the decoded node.
ForEach ==
    /\ ~gathered.run
    /\ LET r == forGatherChildren(decoded)
       IN  gathered' = [run |-> TRUE, calls |-> r.calls, panic |-> r.panic]
    /\ UNCHANGED <<decoded, wide, phase, panic>>
    /\ UNCHANGED pipeVars
    /\ UNCHANGED <<pool, c, caller, ncommit, lastPut, prev>>
    /\ UNCHANGED walkVars

NextResolver == ForEach

SpecResolver == InitResolver /\ [][NextResolver]_vars

-----------------------------------------------------------------------------

Next ==
    \/ NewCommitter
    \/ EnableLeafPipeline
    \/ Commit
    \/ CommitEnter
    \/ Store
    \/ StoreSend
    \/ CommitReturn
    \/ LoopItem
    \/ LoopExit
    \/ CloseLeafCh
    \/ ReturnCommitterToPool
    \/ StoreAdd
    \/ LoopAddLeaf

Spec == Init /\ [][Next]_vars

\* The steps of the commit of the wide tree.
NextWide ==
    \/ NewCommitter
    \/ EnableLeafPipeline
    \/ Commit
    \/ CommitEnter
    \/ Store
    \/ StoreSend
    \/ CommitReturn
    \/ LoopItem
    \/ LoopExit
    \/ CloseLeafCh
    \/ ReturnCommitterToPool

\* The same program committing the wide tree.
SpecWide == InitWide /\ [][NextWide]_vars

\* The steps of the goroutine that called Commit, and of the worker.
WalkStep == CommitEnter \/ Store \/ StoreAdd \/ StoreSend \/ CommitReturn
WorkerStep == LoopItem \/ LoopAddLeaf \/ LoopExit

\* Small trees or the wide one.
InitAny == Start /\ wide \in BOOLEAN /\ NoResolver

\* The program with its goroutines scheduled: the goroutine in Commit runs
\* straight-line code, which goes on whenever it can; the worker is a
\* goroutine of its own, which the runtime schedules whenever it can run,
\* and the callback it calls returns.
SpecFair == InitAny /\ [][Next]_vars /\ WF_vars(WalkStep) /\ WF_vars(WorkerStep)

-----------------------------------------------------------------------------
(* Vocabulary of the properties *)

Root == caller.root

\* Commit has returned a hashNode to its caller.
Completed == phase \in {"committed", "closed", "returned"}

Prefixes(pos) == {SubSeq(pos, 1, k) : k \in 0..Len(pos)}

ProperPrefixes(pos) == {SubSeq(pos, 1, k) : k \in 0..(Len(pos) - 1)}

\* The node carries a hash in its cache and is not dirty.
CleanNode(n) ==
    /\ n.type \in {"short", "full"}
    /\ n.flags.hash # NilHash
    /\ ~n.flags.dirty

StoreEvents == {storeLog[k] : k \in 1..Len(storeLog)}

\* The calls of store that recorded a node as Written, in order.
WrittenLog == SelectSeq(storeLog, LAMBDA e : e.hash # NilHash)

Written == {e \in StoreEvents : e.hash # NilHash}

WrittenHashes == {storeLog[k].hash : k \in 1..Len(storeLog)} \ {NilHash}

\* The calls of store for a node without a hash, embedded in its parent.
Embedded == {e \in StoreEvents : e.hash = NilHash}

HasWritten(path) == path \in DOMAIN nodes /\ ~nodes[path].deleted

HasDeleted(path) == path \in DOMAIN nodes /\ nodes[path].deleted

\* Every shortNode of the tree has a non-empty key.
RECURSIVE NonEmptyKeys(_)
NonEmptyKeys(n) ==
    IF n.type = "short" THEN n.Key # <<>> /\ NonEmptyKeys(n.Val)
    ELSE IF n.type = "full" THEN \A k \in 1..17 : NonEmptyKeys(n.Children[k])
    ELSE TRUE

-----------------------------------------------------------------------------
(* C1 *)

\* C1: a node whose cache carries a hash with dirty = false is never walked:
\* store is never called for it or for a node below it, no frame of commit
\* is opened below it, every Leaf Message, leaf and callback belongs to a
\* node that store recorded, and commit returns exactly the cached hash for
\* it. Committing a clean root leaves the Node Set empty and returns the
\* root's cached hash.
C1_CleanNodeIsNotWalked ==
    /\ \A e \in StoreEvents : \A q \in Prefixes(e.pos) : ~CleanNode(NodeAt(Root, q))
    /\ \A k \in 1..Len(stack) :
          /\ \A q \in ProperPrefixes(stack[k].pos) : ~CleanNode(NodeAt(Root, q))
          /\ stack[k].pc # "enter" => ~CleanNode(NodeAt(Root, stack[k].pos))
    /\ LET stored == WrittenHashes
       IN  /\ {leafCh[k].parent : k \in 1..Len(leafCh)} \subseteq stored
           /\ DOMAIN leaves \subseteq stored
           /\ {calls[k].parent : k \in 1..Len(calls)} \subseteq stored
    /\ (lastRet.valid /\ CleanNode(NodeAt(Root, lastRet.pos)))
          => lastRet.val = hashNode(NodeAt(Root, lastRet.pos).flags.hash)
    /\ (Completed /\ CleanNode(Root))
          => /\ nodes = EmptyNodes
             /\ leaves = EmptyLeaves
             /\ leafCh = <<>>
             /\ calls = <<>>
             /\ result = hashNode(Root.flags.hash)

\* A dirty extension over a clean fullNode that has a dirty leaf below it:
\* the commit has returned and stored the extension only.
C1_Witness ==
    /\ phase = "returned"
    /\ Root.type = "short"
    /\ ~CleanNode(Root)
    /\ Root.Val.type = "full"
    /\ CleanNode(Root.Val)
    /\ Root.Val.Children[1].type = "short"
    /\ Root.Val.Children[1].flags.dirty
    /\ lastRet.val = result
    /\ Len(storeLog) = 1

-----------------------------------------------------------------------------
(* C2 *)

-----------------------------------------------------------------------------
(* C3 *)

\* C3 as claimed: after the commit, for every node that reached the store
\* step with no cached hash, the Node Set holds a Deleted entry at its path
\* exactly if the access record holds the path, and no Written entry.
C3_Original ==
    Completed =>
       \A e \in Embedded :
          /\ HasDeleted(e.path) <=> e.path \in caller.accessList
          /\ ~HasWritten(e.path)

\* C3 amended: in a tree in which every shortNode key is non-empty, from the
\* store step of a node with no cached hash on, the Node Set holds a Deleted
\* entry at the node's path exactly if the access record holds that path,
\* and no Written entry; the store step returned the node itself, no hash.
C3_EmbeddedNodeDeletedIffAccessed ==
    /\ NonEmptyKeys(Root) =>
          \A e \in Embedded :
             /\ HasDeleted(e.path) <=> e.path \in caller.accessList
             /\ ~HasWritten(e.path)
    /\ (lastRet.valid /\ \E e \in Embedded : e.pos = lastRet.pos)
          => /\ lastRet.val.type = NodeAt(Root, lastRet.pos).type
             /\ lastRet.val.flags = NodeAt(Root, lastRet.pos).flags

\* A stored fullNode with an embedded child whose path the access record
\* holds (slot 0) and one whose path it does not hold (slot 5).
C3_Witness ==
    /\ phase = "returned"
    /\ NonEmptyKeys(Root)
    /\ \E e \in Embedded : e.path = <<0>> /\ HasDeleted(<<0>>)
    /\ \E e \in Embedded : e.path = <<5>> /\ <<5>> \notin DOMAIN nodes
    /\ <<0>> \in caller.accessList

-----------------------------------------------------------------------------
(* C4 *)

\* The leaf pipeline is in use for the commit.
Pipelined == caller.onleaf # "nil"

\* The commit is over and, with the pipeline, the channel closed and drained.
LeavesSettled ==
    IF Pipelined
    THEN phase \in {"closed", "returned"} /\ closed /\ leafCh = <<>> /\ worker # "adding"
    ELSE phase \in {"committed", "returned"}

IsLeafShort(n) == n.type = "short" /\ n.Val.type = "value"

\* C4: once the commit is over (with the pipeline: the channel closed and
\* drained), the leaf mapping holds, for every shortNode with a terminal
\* value that was recorded as Written, that value under the node's digest,
\* with the leaf channel nil and with the leaf channel set.
C4_LeafMappingComplete ==
    LeavesSettled =>
       \A e \in Written :
          LET n == NodeAt(Root, e.pos)
          IN  IsLeafShort(n) => e.hash \in DOMAIN leaves /\ leaves[e.hash] = n.Val.val

\* A pipelined commit that stored two leaf shortNodes with different values
\* and handed the Node Set back.
C4_Witness ==
    /\ phase = "returned"
    /\ Pipelined
    /\ \E e1, e2 \in Written :
          /\ IsLeafShort(NodeAt(Root, e1.pos))
          /\ IsLeafShort(NodeAt(Root, e2.pos))
          /\ e1.hash \in DOMAIN leaves
          /\ e2.hash \in DOMAIN leaves
          /\ leaves[e1.hash] # leaves[e2.hash]

-----------------------------------------------------------------------------
(* C5 *)

\* The leaf of a stored node the worker reports: the terminal value of a
\* shortNode, or of a fullNode's 17th slot.
IsLeafShaped(n) ==
    \/ IsLeafShort(n)
    \/ n.type = "full" /\ n.Children[17].type = "value"

LeafValue(n) == IF n.type = "short" THEN n.Val.val ELSE n.Children[17].val

-----------------------------------------------------------------------------
(* C6 *)

\* The leaves of the nodes store recorded as Written, in the order of the
\* store steps.
ExpectedCalls ==
    LET shaped == SelectSeq(storeLog,
                      LAMBDA e : e.hash # NilHash /\ IsLeafShaped(NodeAt(Root, e.pos)))
    IN  [k \in 1..Len(shaped) |-> <<shaped[k].hash, LeafValue(NodeAt(Root, shaped[k].pos))>>]

\* C6: with the pipeline, the callback invocations are, in order, the leaves
\* of the leaf-shaped nodes in the order store recorded them: at any time a
\* prefix of them (no reordering, no duplication), and all of them when the
\* Node Set is handed back (no loss).
C6_CallbackOrderIsStoreOrder ==
    Pipelined =>
       LET exp == ExpectedCalls
       IN  /\ Len(calls) <= Len(exp)
           /\ \A k \in 1..Len(calls) : <<calls[k].parent, calls[k].leaf>> = exp[k]
           /\ phase = "returned" => Len(calls) = Len(exp)

\* Two leaves with different values were reported while a third stored leaf
\* still waits in the channel.
C6_Witness ==
    /\ Pipelined
    /\ Len(calls) >= 2
    /\ calls[1].leaf # calls[2].leaf
    /\ leafCh # <<>>

-----------------------------------------------------------------------------
(* C7 *)

AtSend == phase = "walking" /\ stack # <<>> /\ Top.pc = "send"

\* C7: the leaf channel never holds more than leafChanSize messages; while it
\* is full the walk stands at the hand-off of the store step and can take no
\* step, and it can hand the message over as soon as there is room.
C7_LeafChannelBounded ==
    /\ Len(leafCh) <= 200
    /\ (AtSend /\ Len(leafCh) = 200) => ~ENABLED WalkStep
    /\ (AtSend /\ Len(leafCh) = 199) => ENABLED StoreSend

\* The walk blocked at the hand-off with a full channel.
C7_Witness ==
    /\ AtSend
    /\ Len(leafCh) = 200
    /\ worker = "running"

-----------------------------------------------------------------------------
(* C8 *)

\* The error a commit reports to its caller: Commit returns a hashNode and
\* nothing else, and commitLoop drops what the callback returns.
ReportedErr == NoErr

FailedCalls == SelectSeq(calls, LAMBDA x : x.err # NoErr)

\* C8: when the leaf callback failed for some leaf, the commit reports the
\* last such failure to its caller.
C8_CallbackFailureSurfaced ==
    (phase = "returned" /\ FailedCalls # <<>>)
       => ReportedErr = FailedCalls[Len(FailedCalls)].err

-----------------------------------------------------------------------------
(* C9 *)

InvalidAbort == phase = "panicked" /\ panic \in {"invalid node", "nil dereference"}

\* C9: the walk never gets past a node that is no shortNode, fullNode or
\* hashNode: commit returns no value for such a node, no frame of one is
\* past its entry, and store is never called for a fullNode with a valueNode
\* in a slot 0..15. When the walk has aborted at such a node, store was not
\* called for the node or any of its ancestors (the frames of the stack),
\* and Commit returned nothing.
C9_InvalidNodeAborts ==
    /\ lastRet.valid => NodeAt(Root, lastRet.pos).type \in {"short", "full", "hash"}
    /\ \A k \in 1..Len(stack) :
          stack[k].pc # "enter" => NodeAt(Root, stack[k].pos).type \in {"short", "full"}
    /\ \A e \in StoreEvents :
          LET n == NodeAt(Root, e.pos)
          IN  /\ n.type \in {"short", "full"}
              /\ n.type = "full" => \A k \in 1..16 : n.Children[k].type # "value"
    /\ InvalidAbort =>
          /\ stack # <<>>
          /\ Top.pc = "enter"
          /\ TopNode.type \in {"nil", "value"}
          /\ {stack[k].pos : k \in 1..Len(stack)} \cap {e.pos : e \in StoreEvents} = {}
          /\ ret = Nil
          /\ result = Nil

\* The walk aborted at a valueNode in slot 5 of the root after the child in
\* slot 0 had been stored.
C9_Witness ==
    /\ InvalidAbort
    /\ Len(stack) = 2
    /\ bytes(arrays, Top.path) = <<5>>
    /\ TopNode.type = "value"
    /\ HasWritten(<<0>>)
    /\ <<>> \notin DOMAIN nodes

-----------------------------------------------------------------------------
(* C10 *)

\* C10: every committer newCommitter returns has the Node Set and the access
\* record of that call, and neither a leaf callback nor a leaf channel.
C10_BorrowedCommitterIsReset ==
    phase = "borrowed" =>
       /\ c.nodes = [valid |-> TRUE, owner |-> caller.owner]
       /\ c.tracer = [valid |-> TRUE, accessList |-> caller.accessList]
       /\ c.onleaf = "nil"
       /\ c.leafCh = "nil"

\* The second borrower got the committer the first one put back, which had
\* a callback, a channel, another Node Set and another access record.
C10_Witness ==
    /\ phase = "borrowed"
    /\ ncommit = 2
    /\ pool = {}
    /\ lastPut.onleaf # "nil"
    /\ lastPut.leafCh # "nil"
    /\ lastPut.nodes.owner # caller.owner
    /\ lastPut.tracer.accessList # caller.accessList

-----------------------------------------------------------------------------
(* C11 *)

\* The tree and the access record of the call before are committed again,
\* one of the two calls with the leaf pipeline and the other without.
Replayed ==
    /\ prev.valid
    /\ caller.root = prev.caller.root
    /\ caller.accessList = prev.caller.accessList
    /\ (caller.onleaf = "nil") # (prev.caller.onleaf = "nil")

\* C11: the same tree committed with the same access record into two fresh
\* Node Sets, once without and once with the leaf pipeline, yields the same
\* root digest, the same store steps in the same order with the same
\* collapsed nodes (the node placed in every fullNode slot), and the same
\* Written and Deleted entries.
C11_PipelineDoesNotChangeOutcome ==
    (Replayed /\ Completed) =>
       /\ result = prev.result
       /\ storeLog = prev.storeLog
       /\ nodes = prev.nodes

\* A fullNode with a Written child and an embedded child marked Deleted was
\* committed without the pipeline first and with it afterwards.
C11_Witness ==
    /\ Replayed
    /\ phase = "returned"
    /\ Pipelined
    /\ Root.type = "full"
    /\ \E p \in DOMAIN nodes : nodes[p].deleted
    /\ \E p \in DOMAIN nodes : p # <<>> /\ ~nodes[p].deleted
    /\ \E k \in 1..16 : nodes[<<>>].blob[2].Children[k].type = "hash"
                         /\ Root.Children[k].type = "short"

-----------------------------------------------------------------------------
(* C12 *)

\* The calls of store that recorded an entry in the Node Set, in order: a
\* Written entry for a node with a hash, a Deleted entry for an embedded
\* node whose path the access record holds.
Recorded == SelectSeq(storeLog, LAMBDA e : e.hash # NilHash \/ e.path \in caller.accessList)

\* No entry of the Node Set and no entry of its leaf mapping changes or
\* goes away in a step of the same commit call.
EntriesKept ==
    (NonEmptyKeys(Root) /\ phase' # "borrowed") =>
       /\ \A p \in DOMAIN nodes : p \in DOMAIN nodes' /\ nodes'[p] = nodes[p]
       /\ \A h \in DOMAIN leaves : h \in DOMAIN leaves' /\ leaves'[h] = leaves[h]

\* Each path gets one entry: the recording store steps have distinct paths,
\* and the Node Set holds as many entries as there were such steps.
OneEntryPerPath ==
    NonEmptyKeys(Root) =>
       LET rec == Recorded
       IN  /\ \A i, j \in 1..Len(rec) : i # j => rec[i].path # rec[j].path
           /\ Cardinality(DOMAIN nodes) = Len(rec)

\* C12: within one commit call over a tree in which every shortNode key is
\* non-empty, each path receives at most one Node Set entry, and no entry of
\* the Node Set or of the leaf mapping recorded earlier in the call is
\* replaced by different data later in the call.
C12_EntriesInsertOnly == []OneEntryPerPath /\ [][EntriesKept]_vars

\* A commit recorded a Deleted entry, Written entries and leaves.
C12_Witness ==
    /\ phase = "returned"
    /\ NonEmptyKeys(Root)
    /\ Len(Recorded) >= 3
    /\ \E p \in DOMAIN nodes : nodes[p].deleted
    /\ leaves # EmptyLeaves

\* The same leaf value was put twice under the digest two equal leaves share.
TwinLeaves ==
    /\ phase = "returned"
    /\ Root \in {Cached(t, <<>>) : t \in Twins}
    /\ Cardinality(DOMAIN leaves) = 1
    /\ Len(Recorded) = 3

-----------------------------------------------------------------------------
(* C13 *)

\* The positions of the nodes reachable through shortNode values and
\* fullNode slots 0..15.
RECURSIVE Reach(_)
Reach(n) ==
    {<<>>} \cup
    (IF n.type = "short" THEN {<<0>> \o q : q \in Reach(n.Val)}
     ELSE IF n.type = "full"
     THEN UNION {{<<k>> \o q : q \in Reach(n.Children[k])} : k \in 1..16}
     ELSE {})

\* Position p comes before position q in the order of the slots.
Before(p, q) ==
    \E i \in 1..Len(p) :
       /\ i <= Len(q)
       /\ SubSeq(p, 1, i - 1) = SubSeq(q, 1, i - 1)
       /\ p[i] < q[i]

HashPositions == {p \in Reach(decoded) : NodeAt(decoded, p).type = "hash"}

UnknownPositions ==
    {p \in Reach(decoded) :
        NodeAt(decoded, p).type \notin {"short", "full", "hash", "value", "nil"}}

\* The hash references the traversal gets to: all of them, or those before
\* the first node of an unknown type.
Visited ==
    {p \in HashPositions : \A u \in UnknownPositions : Before(p, u)}

\* C13: the callback is invoked exactly once for each hash reference
\* reachable through shortNode values and fullNode slots 0..15, nested ones
\* included, in ascending slot order, and for nothing else (no terminal
\* value, no empty slot, nothing in a 17th slot); a node of any other shape
\* aborts the call, which ends with the calls made before it.
C13_ResolverVisitsEachHashChildOnce ==
    gathered.run =>
       /\ gathered.panic <=> UnknownPositions # {}
       /\ Len(gathered.calls) = Cardinality(Visited)
       /\ \A p \in Visited :
             gathered.calls[1 + Cardinality({q \in Visited : Before(q, p)})]
                = NodeAt(decoded, p).hash

\* A fullNode with a hash reference nested in an embedded shortNode in slot
\* 0, hash references in slots 5 and 15 and one in the 17th slot: three
\* calls, in slot order.
C13_Witness ==
    /\ gathered.run
    /\ ~gathered.panic
    /\ decoded.type = "full"
    /\ decoded.Children[1].type = "short"
    /\ decoded.Children[17].type = "hash"
    /\ gathered.calls = <<HashA.hash, HashC.hash, HashB.hash>>

\* A node of an unknown type in slot 5 aborted the call after the callback
\* for slot 0.
ResolverAborted ==
    /\ gathered.run
    /\ gathered.panic
    /\ decoded.type = "full"
    /\ decoded.Children[6] = Unknown
    /\ gathered.calls = <<HashB.hash>>

-----------------------------------------------------------------------------
(* C14 *)

\* The positions of the nodes a commit of n at pos stores: n itself unless
\* it is clean, and below it the fullNode under a shortNode and the
\* children in slots 0..15 of a fullNode that are no hash references.
RECURSIVE Walked(_, _)
Walked(n, pos) ==
    IF n.type \notin {"short", "full"} \/ CleanNode(n) THEN {}
    ELSE IF n.type = "short"
    THEN {pos} \cup (IF n.Val.type = "full" THEN Walked(n.Val, pos \o <<0>>) ELSE {})
    ELSE {pos} \cup UNION {Walked(n.Children[k], pos \o <<k>>) : k \in 1..16}

\* The index of the store step of the node at pos, 0 if there was none.
StoredAt(pos) ==
    LET S == {k \in 1..Len(storeLog) : storeLog[k].pos = pos}
    IN  IF S = {} THEN 0 ELSE CHOOSE k \in S : TRUE

\* C14: children are committed before their parent. When store is called
\* for a node, store has been called before for every node the walk commits
\* below it; a node below another is stored before it; and below one
\* fullNode the store steps of the subtree in slot i all come before those
\* of the subtree in slot j when i < j.
C14_ChildrenStoredBeforeParent ==
    \A i \in 1..Len(storeLog) :
       LET e == storeLog[i]
       IN  /\ \A d \in Walked(NodeAt(Root, e.pos), e.pos) :
                 d # e.pos => StoredAt(d) \in 1..(i - 1)
           /\ \A j \in 1..Len(storeLog) :
                 LET f == storeLog[j]
                 IN  /\ e.pos \in ProperPrefixes(f.pos) => j < i
                     /\ \A q \in Prefixes(e.pos) \cap Prefixes(f.pos) :
                           (/\ Len(q) < Len(e.pos)
                            /\ Len(q) < Len(f.pos)
                            /\ NodeAt(Root, q).type = "full"
                            /\ e.pos[Len(q) + 1] < f.pos[Len(q) + 1]) => i < j

\* A tree of depth three was committed: the leaf, the fullNode and the
\* extension of slot 0, then the leaf and the fullNode of slot 5, then the
\* root.
C14_Witness ==
    /\ phase = "returned"
    /\ Len(storeLog) = 6
    /\ [k \in 1..6 |-> storeLog[k].pos]
          = <<(<<1, 0, 1>>), (<<1, 0>>), (<<1>>), (<<6, 1>>), (<<6>>), (<<>>)>>

-----------------------------------------------------------------------------
(* C15 *)

\* The nibble path of the node at a position below n: the hex key of each
\* shortNode and the slot index of each fullNode on the way.
RECURSIVE OwnPath(_, _)
OwnPath(n, pos) ==
    IF pos = <<>> THEN <<>>
    ELSE IF n.type = "short" THEN n.Key \o OwnPath(n.Val, Tail(pos))
    ELSE <<Head(pos) - 1>> \o OwnPath(n.Children[Head(pos)], Tail(pos))

\* C15: every call of store gets the node's own nibble path, and every
\* entry of the Node Set is at the own path of a stored node; the path of
\* every commit call in progress reads as the node's own path whatever the
\* commits of its children and of earlier siblings have appended.
C15_EntriesAtOwnPath ==
    /\ \A e \in StoreEvents : e.path = OwnPath(Root, e.pos)
    /\ \A p \in DOMAIN nodes : \E e \in StoreEvents : p = OwnPath(Root, e.pos)
    /\ \A k \in 1..Len(stack) :
          bytes(arrays, stack[k].path) = OwnPath(Root, stack[k].pos)

\* Two siblings were committed at paths sharing one backing array with the
\* path of their parent, the second written over the first, and the parent
\* is about to be stored.
C15_Witness ==
    /\ phase = "walking"
    /\ Len(stack) = 2
    /\ Top.pc = "store"
    /\ bytes(arrays, Top.path) = <<0>>
    /\ cap(arrays, Top.path) > 1
    /\ arrays[Top.path.arr][2] = 5
    /\ \E e \in StoreEvents : e.path = <<0, 0>>
    /\ \E e \in StoreEvents : e.path = <<0, 5>>

\* An extension key took the path past the capacity of the array it shared
\* with the path of the parent: the child got a copy in a new array.
PathRegrown ==
    /\ Len(stack) = 3
    /\ stack[2].path.arr # stack[3].path.arr
    /\ stack[2].path.len = 1
    /\ stack[3].path.len = 9
    /\ cap(arrays, stack[3].path) = 16

-----------------------------------------------------------------------------
(* C16 *)

\* What commit returns for the node at pos once its store step is done: the
\* cached hash of a clean node, else the hash store recorded for it, else
\* its collapsed copy.
Committed(pos) ==
    LET n == NodeAt(Root, pos)
    IN  IF CleanNode(n) THEN hashNode(n.flags.hash)
        ELSE IF StoredAt(pos) = 0 THEN Nil
        ELSE LET e == storeLog[StoredAt(pos)]
             IN  IF e.hash # NilHash THEN hashNode(e.hash) ELSE e.node

\* C16: the node store gets for a fullNode holds in every slot 0..15 the
\* hash reference the input held there, nothing where the input held
\* nothing, and else what the commit of that child at path + index
\* returned; its 17th slot holds the 17th child of the input. No commit
\* call and no store step is ever made for a hash reference in a slot or
\* for the content of a 17th slot.
C16_FullNodeSlotsAfterCommit ==
    /\ \A e \in StoreEvents :
          LET n == NodeAt(Root, e.pos)
          IN  n.type = "full" =>
                 /\ e.node.type = "full"
                 /\ e.node.Children[17] = n.Children[17]
                 /\ \A k \in 1..16 :
                       e.node.Children[k] =
                          IF n.Children[k].type \in {"hash", "nil"} THEN n.Children[k]
                          ELSE Committed(e.pos \o <<k>>)
    /\ \A k \in 1..Len(stack) :
          LET pos == stack[k].pos
          IN  pos # <<>> =>
                 /\ NodeAt(Root, pos).type # "hash"
                 /\ NodeAt(Root, SubSeq(pos, 1, Len(pos) - 1)).type = "full"
                       => pos[Len(pos)] # 17
    /\ \A e \in StoreEvents :
          e.pos # <<>> =>
             /\ NodeAt(Root, e.pos).type # "hash"
             /\ NodeAt(Root, SubSeq(e.pos, 1, Len(e.pos) - 1)).type = "full"
                   => e.pos[Len(e.pos)] # 17

\* A stored fullNode with a hash reference in slot 0, an embedded child in
\* slot 5 and a value in the 17th slot.
C16_Witness ==
    /\ phase = "returned"
    /\ Root.type = "full"
    /\ Root.Children[1] = HashRef
    /\ Root.Children[6].type = "short"
    /\ Root.Children[17].type = "value"
    /\ HasWritten(<<>>)
    /\ LET kids == nodes[<<>>].blob[2].Children
       IN  /\ kids[1] = HashRef
           /\ kids[6].type = "short"
           /\ kids[6].Key = hexToCompact(Root.Children[6].Key)
           /\ kids[17] = Root.Children[17]

-----------------------------------------------------------------------------
(* C17 *)

\* C17: once the commit is over (with the pipeline: the channel closed and
\* drained), the leaf mapping holds, under the node's digest, the leaf of
\* every Written node that is a leaf: the value of a shortNode and the value
\* in the 17th slot of a fullNode, with the leaf pipeline and without it.
C17_LeafMappingCoversFullNodes ==
    LeavesSettled =>
       \A e \in Written :
          LET n == NodeAt(Root, e.pos)
          IN  IsLeafShaped(n) => e.hash \in DOMAIN leaves /\ leaves[e.hash] = LeafValue(n)

\* The same with the leaf pipeline only: the worker records both kinds.
PipelineCoversFullNodes == Pipelined => C17_LeafMappingCoversFullNodes

\* A pipelined commit recorded the value in the 17th slot of a fullNode.
FullNodeLeafRecorded ==
    /\ phase = "returned"
    /\ Pipelined
    /\ \E e \in Written :
          /\ NodeAt(Root, e.pos).type = "full"
          /\ e.hash \in DOMAIN leaves

-----------------------------------------------------------------------------
(* C18 *)

\* The messages the worker has to pass over: the node is no shortNode with
\* a terminal value and no fullNode with a terminal value in its 17th slot.
Ignorable(msg) == ~IsLeafShaped(msg.node)

\* C18: the leaf worker never aborts while draining: a message whose node
\* is not leaf-shaped is taken from the channel with no leaf recorded and
\* no callback invoked, and the worker goes on.
C18_WorkerIgnoresOtherShapes ==
    /\ panic # "leaf assertion"
    /\ (worker = "running" /\ leafCh # <<>> /\ Ignorable(Head(leafCh)) /\ phase # "panicked")
          => ENABLED (LoopItem /\ UNCHANGED <<leaves, calls, phase, worker>>)

\* The messages other than a fullNode with something else than a value in
\* its 17th slot are passed over or reported.
WorkerAbortsOnlyOnSlot17 ==
    (worker = "running" /\ leafCh # <<>> /\ phase # "panicked"
        /\ ~(Head(leafCh).node.type = "full"
             /\ Head(leafCh).node.Children[17].type \notin {"nil", "value"}))
       => ENABLED (LoopItem /\ phase' # "panicked")

-----------------------------------------------------------------------------
(* C19 *)

\* The commit walk is inside AddNode.
WalkInInsertion == phase = "walking" /\ stack # <<>> /\ Top.pc = "add"

\* The worker is inside AddLeaf.
WorkerInInsertion == worker = "adding"

\* C19: during a commit with the leaf pipeline enabled the Node Set has at
\* most one writer at any time: the walk is never inside a Node Set
\* insertion while the worker is inside one.
C19_NodeSetHasOneWriter == ~(WalkInInsertion /\ WorkerInInsertion)

\* What the two writers of a pipelined commit touch: the node entries change
\* only in a step of the walk that leaves AddNode, the leaf mapping only in
\* a step of the worker that leaves AddLeaf.
WritersKeepToTheirPart ==
    [][(c # Nil /\ c.leafCh # "nil" /\ ncommit' = ncommit)
          => /\ (nodes' # nodes => WalkInInsertion /\ worker' = worker)
             /\ (leaves' # leaves => WorkerInInsertion /\ stack' = stack)]_vars

-----------------------------------------------------------------------------
(* C20 *)

\* The commit call is running: Commit was called and has neither returned
\* nor aborted.
InCommit == phase = "walking"

\* The ways a commit call aborts: the invalid-node failure of the walk (the
\* panic of the type switch, or the nil dereference before it), the failed
\* hashNode assertion of Commit, the failed assertion of the worker.
Aborts == {"invalid node", "nil dereference", "type assertion", "leaf assertion"}

WaitsOnlyForSpace ==
    (InCommit /\ ~(AtSend /\ Len(leafCh) = leafChanSize)) => ENABLED WalkStep

====
